---- MODULE Spec2Model ----
(***************************************************************************)
(* Model of src/main.py: the /search handler of the file search service.   *)
(* One request at a time walks through: query clean-up and quality         *)
(* detection, credential loading, the primary (Drive) listing and its      *)
(* post-filter, the archive (tgarchive) call with its token cache and      *)
(* single retry, the concurrent download probes with their join barrier,   *)
(* and the naturally sorted response (Spec; LiveSpec adds the progress     *)
(* conditions). Overlap runs the archive call for several requests at      *)
(* once, one step per access to the shared token.                          *)
(*                                                                         *)
(* Strings are sequences of one-character strings, so that substring       *)
(* search, splitting, lower-casing and natural ordering are computed.      *)
(* The humanized "size" and the "fileUniqueId" fields of an entry are      *)
(* carried by no decision of the code and are left out of the entries.     *)
(***************************************************************************)
EXTENDS Integers, Sequences, FiniteSets, TLC

\* ------------------------------------------------------------------ bounds

\* Threads of the executor behind asyncio.to_thread that run probes at once.
MaxWorkers == 2
\* Tokens the archive's auth endpoint hands out in one run of the model.
MaxTokens == 3
\* Hits of the largest archive response.
MaxTgHits == 31
\* /search requests whose archive calls overlap.
MaxRequests == 2
\* Files of the two largest primary listings: around the coverage threshold,
\* and past MAX_RESULTS.
MaxBulk == 12
MaxOverflow == 31

\* --------------------------------------------------------------- constants

MAX_RESULTS == 30
COVERAGE == 10

None == "None"

QUALITIES ==
    << <<"3","6","0">>, <<"4","8","0">>, <<"7","2","0">>,
       <<"1","0","8","0">>, <<"1","4","4","0">>, <<"2","1","6","0">> >>

MIME_FOLDER == "application/vnd.google-apps.folder"
MIME_SHORTCUT == "application/vnd.google-apps.shortcut"
MIME_VIDEO == "video/x-matroska"

\* ----------------------------------------------------------------- strings

DigitChars == <<"0","1","2","3","4","5","6","7","8","9">>

IsDigit(c) == \E i \in 1..10 : DigitChars[i] = c

DigitVal(c) == (CHOOSE i \in 1..10 : DigitChars[i] = c) - 1

\* Code points of the characters the model uses (for str comparison).
Ord(c) ==
    CASE c = " " -> 32
      [] c = "!" -> 33
      [] IsDigit(c) -> 48 + DigitVal(c)
      [] c = "T" -> 84
      [] c = "_" -> 95
      [] c = "p" -> 112
      [] c = "t" -> 116
      [] c = "x" -> 120
      [] OTHER -> 0

\* str.lower()
LowerChar(c) == IF c = "T" THEN "t" ELSE c

Lower(s) == [i \in 1..Len(s) |-> LowerChar(s[i])]

\* re.search(sub, s) for a literal pattern / str.find(sub) != -1
Contains(s, sub) ==
    \E i \in 0..(Len(s) - Len(sub)) :
        \A j \in 1..Len(sub) : s[i + j] = sub[j]

\* re.sub('[^a-zA-Z0-9-_ ]', '', query)
AllowedChar(c) == c \in {"t", "T", "p", "x", "_", "-", " "} \/ IsDigit(c)

Sanitize(s) == SelectSeq(s, AllowedChar)

\* re.split(' ', query): every single space separates, so two spaces in a
\* row give an empty token.
RECURSIVE SplitFrom(_, _, _)
SplitFrom(s, i, cur) ==
    IF i > Len(s) THEN <<cur>>
    ELSE IF s[i] = " " THEN <<cur>> \o SplitFrom(s, i + 1, <<>>)
    ELSE SplitFrom(s, i + 1, Append(cur, s[i]))

Split(s) == SplitFrom(s, 1, <<>>)

\* str(n) for a natural number
RECURSIVE Digits(_)
Digits(n) ==
    IF n < 10 THEN <<DigitChars[n + 1]>>
    ELSE Append(Digits(n \div 10), DigitChars[(n % 10) + 1])

\* ------------------------------------------------------- query normalizer

\* for resol in QUALITIES: if re.search(resol, query): quality = resol; break
DetectQuality(query) ==
    IF \E i \in 1..Len(QUALITIES) : Contains(query, QUALITIES[i])
    THEN QUALITIES[CHOOSE i \in 1..Len(QUALITIES) :
                      /\ Contains(query, QUALITIES[i])
                      /\ \A j \in 1..(i - 1) : ~Contains(query, QUALITIES[j])]
    ELSE None

\* SkipsToken as a test for the token that is the label itself.
SkipsEqualToken(quality, text) == quality # None /\ text = quality

\* The tokens that become "name contains" clauses of gdrive_query, in order.
SkipsToken(quality, text) == quality # None /\ Contains(text, quality)

GdriveClauses(query_list, quality) ==
    SelectSeq(query_list, LAMBDA text : ~SkipsToken(quality, text))

\* contains(substr, fullstr)
contains(substr, fullstr) ==
    \A i \in 1..Len(substr) : Contains(fullstr, Lower(substr[i]))

\* ------------------------------------------------------------ natural sort

\* natsort's key: the name cut into maximal runs of digits and of other
\* characters, beginning with a text run (an empty one when the name begins
\* with a digit); a digit run counts as its integer value.
RECURSIVE RunEnd(_, _)
RunEnd(s, i) ==
    IF i < Len(s) /\ IsDigit(s[i + 1]) = IsDigit(s[i]) THEN RunEnd(s, i + 1) ELSE i

RECURSIVE NumVal(_)
NumVal(ds) ==
    IF ds = <<>> THEN 0
    ELSE 10 * NumVal(SubSeq(ds, 1, Len(ds) - 1)) + DigitVal(ds[Len(ds)])

RECURSIVE RunsFrom(_, _)
RunsFrom(s, i) ==
    IF i > Len(s) THEN <<>>
    ELSE LET e == RunEnd(s, i)
             t == SubSeq(s, i, e)
         IN  <<[num |-> IsDigit(s[i]), txt |-> t,
                val |-> IF IsDigit(s[i]) THEN NumVal(t) ELSE 0]>>
             \o RunsFrom(s, e + 1)

NatKey(s) ==
    IF s # <<>> /\ IsDigit(s[1])
    THEN <<[num |-> FALSE, txt |-> <<>>, val |-> 0]>> \o RunsFrom(s, 1)
    ELSE RunsFrom(s, 1)

\* str < str, by code point
RECURSIVE StrLess(_, _)
StrLess(a, b) ==
    IF b = <<>> THEN FALSE
    ELSE IF a = <<>> THEN TRUE
    ELSE IF a[1] # b[1] THEN Ord(a[1]) < Ord(b[1])
    ELSE StrLess(Tail(a), Tail(b))

RunLess(x, y) == IF x.num THEN x.val < y.val ELSE StrLess(x.txt, y.txt)

RunEq(x, y) == IF x.num THEN x.val = y.val ELSE x.txt = y.txt

\* tuple < tuple
RECURSIVE KeyLess(_, _)
KeyLess(k1, k2) ==
    IF k2 = <<>> THEN FALSE
    ELSE IF k1 = <<>> THEN TRUE
    ELSE IF RunEq(k1[1], k2[1]) THEN KeyLess(Tail(k1), Tail(k2))
    ELSE RunLess(k1[1], k2[1])

NatLess(a, b) == KeyLess(NatKey(a), NatKey(b))

\* A stable sort: an entry stands after the entries of smaller key and after
\* the entries of equal key that came before it. (Seq1(f) is the function f
\* over 1..n written out as a tuple.)
Seq1(f) == <<>> \o f

StablePos(key) ==
    Seq1([i \in DOMAIN key |->
            1 + Cardinality({j \in DOMAIN key :
                                /\ j # i
                                /\ \/ KeyLess(key[j], key[i])
                                   \/ (j < i /\ ~KeyLess(key[i], key[j]))})])

Arrange(m, pos) == [p \in 1..Len(m) |-> m[CHOOSE i \in 1..Len(m) : pos[i] = p]]

\* natsorted as sorted(): the whole name compared as text.
PlainSorted(m) ==
    Arrange(m, StablePos(Seq1([i \in 1..Len(m) |->
                                  <<[num |-> FALSE, txt |-> m[i].name, val |-> 0]>>])))

\* natsorted(seq=resultsMap.items(), key=lambda x: x[1].get('name'))
natsorted(m) ==
    Arrange(m, StablePos(Seq1([i \in 1..Len(m) |-> NatKey(m[i].name)])))

\* -------------------------------------------------------------------- dict

\* A dict is the sequence of its entries in insertion order; an entry carries
\* its key in the field id.
Keys(m) == {m[i].id : i \in 1..Len(m)}

\* The dict that assigning the entries of seq in order builds up from the
\* empty dict: a key stands where it was first assigned and holds the value
\* it was last assigned.
DictOf(seq) ==
    LET n == Len(seq)
        first == SelectSeq([i \in 1..n |-> i],
                           LAMBDA i : \A j \in 1..(i - 1) : seq[j].id # seq[i].id)
        last(k) == CHOOSE i \in 1..n :
                       seq[i].id = k /\ \A j \in (i + 1)..n : seq[j].id # k
    IN  [p \in 1..Len(first) |-> seq[last(seq[first[p]].id)]]

\* m.update(other), other a dict: a key of m keeps its place and takes the
\* value of other; the new keys follow in the order of other.
DictUpdate(m, other) ==
    LET val(k) == CHOOSE e \in {other[i] : i \in 1..Len(other)} : e.id = k
    IN  [i \in 1..Len(m) |-> IF m[i].id \in Keys(other) THEN val(m[i].id) ELSE m[i]]
        \o SelectSeq(other, LAMBDA e : e.id \notin Keys(m))

\* ------------------------------------------------------------- environment

\* A file of a primary listing. dl is what a download probe of it does:
\* "ok" (the first chunk is read), "raise" (any exception) or "hang" (the
\* download never returns: the calls of isDownloadable have no timeout).
DriveFile(id, name, mime, dl) ==
    [id |-> id, name |-> name, mimeType |-> mime, dl |-> dl]

NameMatch == <<"T","_","7","2","0","p">>
NamePlain == <<"t","_","x">>
NameOther == <<"x">>
BulkName(i) == <<"t","7","2","0","p","_">> \o Digits(i)

\* A folder, a shortcut and regular files, some matching, one not retrievable.
MixedListing(folderDl) ==
    << DriveFile(1, <<"t","7","2","0","p","_","2">>, MIME_FOLDER, folderDl),
       DriveFile(2, <<"t","7","2","0","p","_","1","0">>, MIME_SHORTCUT, "ok"),
       DriveFile(3, NameMatch, MIME_VIDEO, "ok"),
       DriveFile(4, <<"t","7","2","0","p","_","1">>, MIME_VIDEO, "raise"),
       DriveFile(5, NamePlain, MIME_VIDEO, "ok"),
       DriveFile(6, NameOther, MIME_VIDEO, "ok") >>

\* n regular files that match; the first nBad of them are not retrievable.
BulkListing(n, nBad) ==
    [i \in 1..n |->
        DriveFile(10 + i, BulkName(i), MIME_VIDEO, IF i <= nBad THEN "raise" ELSE "ok")]

\* An id field of a hit's metadata: a number, absent, or not a number.
NoId == 0
BadId == -1

\* A hit of an archive response. desc is the state of its "description":
\* "json" (parses), "malformed" (json.loads raises JSONDecodeError) or
\* "missing" (json.loads(None) raises TypeError).
Hit(desc, id, alt, name) ==
    [desc |-> desc, id |-> id, alt |-> alt, name |-> name, mime |-> MIME_VIDEO]

GoodHit(id) == Hit("json", id, NoId, <<"t","_">> \o Digits(id))

TgBulk(n) == [i \in 1..n |-> GoodHit(200 + i)]

TgResponses ==
    { <<>>,
      << GoodHit(101), Hit("malformed", NoId, NoId, <<>>), GoodHit(102) >>,
      << Hit("json", NoId, 103, <<"t","_","1","0","3">>),
         Hit("json", NoId, NoId, <<"t">>),
         GoodHit(3),
         Hit("json", 104, NoId, <<"t","_","1","0","3">>) >>,
      << GoodHit(101), Hit("missing", NoId, NoId, <<>>) >>,
      << GoodHit(101), Hit("json", BadId, NoId, <<"t">>) >>,
      TgBulk(MaxTgHits) }

\* TG_ARCHIVE_SEARCH_API set; TG_ARCHIVE_AUTH_API and TG_ARCHIVE_USER set.
FullConfig == [search |-> TRUE, auth |-> TRUE]

PartConfigs == { [search |-> FALSE, auth |-> TRUE], [search |-> TRUE, auth |-> FALSE] }

\* What the process starts with: the primary listing, the archive hits, and
\* the archive settings.
Scenarios ==
    ({ <<>>, MixedListing("ok"), MixedListing("raise"), BulkListing(COVERAGE - 1, 1) }
        \X TgResponses \X {FullConfig})
    \cup ({ BulkListing(COVERAGE, 0), BulkListing(COVERAGE, 1),
            BulkListing(MaxBulk, 0), BulkListing(MaxBulk, 2),
            BulkListing(MaxOverflow, 0) }
            \X { <<GoodHit(101)>> } \X {FullConfig})
    \cup ({ MixedListing("ok") } \X { <<GoodHit(101)>> } \X PartConfigs)

\* The query strings of the requests, after unquote.
Queries ==
    { <<"t"," ","7","2","0">>,
      <<"t"," ","7","2","0","p">>,
      <<"T","!">>,
      <<"1","0","8","0"," ","7","2","0">> }

\* -------------------------------------------------------------------- state

VARIABLES
    driveFiles,        \* the files the primary backend lists
    tgFiles,           \* the hits the archive backend answers with
    config,            \* which archive settings setup_config loaded
    TG_ARCHIVE_TOKEN,  \* the cached bearer token: 0 is None, k the k-th issued
    issued,            \* tokens the auth endpoint has issued
    pc,                \* where the request is
    query,             \* the cleaned query
    quality,           \* the quality label found in it, or None
    gdrive_query,      \* the "name contains" clauses sent to the primary backend
    resultsMap,        \* the result dict
    retry_count,       \* of the running fetch_tgarchive_files frame
    tg_files,          \* what fetch_tgarchive_files returned to search
    tglog,             \* requests sent to the archive and their answers, in order
    queue,             \* probes waiting for a thread
    running,           \* probes in a thread
    shared_list,       \* ids whose probe raised
    probeOk,           \* ids whose probe completed without error
    response,          \* the response of the request
    calls,             \* overlapping calls of fetch_tgarchive_files, by request
    accepted           \* the tokens the archive's search endpoint accepts

envVars == <<driveFiles, tgFiles, config>>
tokVars == <<TG_ARCHIVE_TOKEN, issued>>
probeVars == <<queue, running, shared_list, probeOk>>
reqVars == <<pc, query, quality, gdrive_query, resultsMap, retry_count, tg_files,
            tglog, response>>
ovVars == <<calls, accepted>>
vars == <<driveFiles, tgFiles, config, TG_ARCHIVE_TOKEN, issued, pc, query,
          quality, gdrive_query, resultsMap, retry_count, tg_files, tglog, queue,
          running, shared_list, probeOk, response, calls, accepted>>

Requests == 1..MaxRequests

\* A request that is not inside fetch_tgarchive_files.
NoCall == [pc |-> "out", retry_count |-> 1, bearer |-> 0]

NoResponse == [status |-> "none", files |-> <<>>, msg |-> None]

\* The state after start-up, the environment being one of scenarios.
Start(scenarios) ==
    /\ \E sc \in scenarios :
           driveFiles = sc[1] /\ tgFiles = sc[2] /\ config = sc[3]
    /\ TG_ARCHIVE_TOKEN = 0
    /\ issued = 0
    /\ pc = "idle"
    /\ query = <<>>
    /\ quality = None
    /\ gdrive_query = <<>>
    /\ resultsMap = <<>>
    /\ retry_count = 1
    /\ tg_files = <<>>
    /\ tglog = <<>>
    /\ queue = <<>>
    /\ running = {}
    /\ shared_list = <<>>
    /\ probeOk = {}
    /\ response = NoResponse
    /\ calls = [t \in Requests |-> NoCall]
    /\ accepted = {}

Init == Start(Scenarios)

\* ------------------------------------------------------------ search: begin

\* ErrorResponse as an envelope that carries what was collected so far.
ErrorResponsePartial(cls) ==
    /\ response' = [status |-> "error", files |-> resultsMap, msg |-> cls]
    /\ pc' = "done"

\* except Exception as e: return {'status': 'error', 'msg': ...}
ErrorResponse(cls) ==
    /\ response' = [status |-> "error", files |-> <<>>, msg |-> cls]
    /\ pc' = "done"

\* Lines 225-247: clean the query, find its quality label, load the credentials and refresh them when
\* expired. cred is what loading does: "ok", "RefreshError" (the refresh
\* fails: GdriveSearchError) or "FileNotFound" (no token.pickle).
SearchBegin(raw, cred) ==
    /\ pc \in {"idle", "done"}
    /\ query' = Sanitize(raw)
    /\ quality' = DetectQuality(Sanitize(raw))
    /\ gdrive_query' = <<>>
    /\ resultsMap' = <<>>
    /\ retry_count' = 1
    /\ tg_files' = <<>>
    /\ tglog' = <<>>
    /\ queue' = <<>>
    /\ running' = {}
    /\ shared_list' = <<>>
    /\ probeOk' = {}
    /\ IF cred = "ok"
       THEN pc' = "list" /\ response' = NoResponse
       ELSE ErrorResponse(IF cred = "RefreshError" THEN "GdriveSearchError"
                          ELSE "FileNotFoundError")
    /\ UNCHANGED <<envVars, ovVars, tokVars>>

\* ---------------------------------------------------------- primary listing

Entry(file, is_tgapi) ==
    [id |-> file.id, name |-> file.name, mimeType |-> file.mimeType,
     is_tgapi |-> is_tgapi]

\* Rejects without the shortcut test.
RejectsNameOnly(query_list, file) == ~contains(query_list, Lower(file.name))

\* Lines 259-270: the post-filter loop over the listing.
Rejects(query_list, file) ==
    \/ file.mimeType = MIME_SHORTCUT
    \/ ~contains(query_list, Lower(file.name))

\* count, when the loop reaches item i, is the number of items accepted
\* before it; the loop breaks at the first item it reaches with count >= 30.
PostFilter(results, query_list) ==
    LET n == Len(results)
        passes == {i \in 1..n : ~Rejects(query_list, results[i])}
        count(i) == Cardinality({j \in passes : j < i})
        taken == SelectSeq([i \in 1..n |-> i],
                           LAMBDA i : i \in passes /\ count(i) < MAX_RESULTS)
    IN  DictOf([p \in 1..Len(taken) |-> Entry(results[taken[p]], FALSE)])

\* AsksArchive with the threshold included.
AsksArchiveLax(map) == Len(map) <= COVERAGE

\* Line 272: the archive is asked when the dict holds fewer than 10 entries.
AsksArchive(map) == Len(map) < COVERAGE

\* check_download, up to the gather: one task per key; a task of an archive
\* entry returns at once, a task of a primary entry probes in a thread of the
\* executor, which runs at most MaxWorkers probes and takes the others in
\* order as threads come free.
ProbeIds(map) ==
    LET prim == SelectSeq(map, LAMBDA e : ~e.is_tgapi)
    IN  [i \in 1..Len(prim) |-> prim[i].id]

Min(a, b) == IF a < b THEN a ELSE b

StartProbes(map) ==
    LET ids == ProbeIds(map)
        k == Min(MaxWorkers, Len(ids))
    IN  /\ running' = {ids[i] : i \in 1..k}
        /\ queue' = SubSeq(ids, k + 1, Len(ids))
        /\ shared_list' = <<>>
        /\ probeOk' = {}
        /\ pc' = "probing"

\* Lines 248-272: build the backend query, list, post-filter, and decide on
\* the archive. listed is what the listing call does: "ok" or "error".
PrimaryList(listed) ==
    /\ pc = "list"
    /\ LET query_list == Split(query)
           map == PostFilter(driveFiles, query_list)
       IN  /\ gdrive_query' = GdriveClauses(query_list, quality)
           /\ IF listed = "error"
              THEN /\ ErrorResponse("HttpError")
                   /\ UNCHANGED <<resultsMap, probeVars>>
              ELSE /\ resultsMap' = map
                   /\ response' = response
                   /\ IF AsksArchive(map)
                      THEN pc' = "tg_enter" /\ UNCHANGED probeVars
                      ELSE StartProbes(map)
    /\ UNCHANGED <<envVars, ovVars, tokVars, query, quality, retry_count, tg_files, tglog>>

\* ------------------------------------------------------------------ archive

\* Lines 196-208: the loop over the hits. Handling a hit raises when its
\* description is missing (TypeError) or malformed (JSONDecodeError) or its
\* id is no number (ValueError: int(file_id)); a hit with neither id is
\* skipped. The loop ends at the first hit that raises: exc is the class
\* raised, or None, and results holds the hits handled before it.
HitFileId(hit) == IF hit.id # NoId THEN hit.id ELSE hit.alt

HitRaises(hit) ==
    IF hit.desc = "missing" THEN "TypeError"
    ELSE IF hit.desc = "malformed" THEN "JSONDecodeError"
    ELSE IF HitFileId(hit) = BadId THEN "ValueError"
    ELSE None

HitEntry(hit) ==
    [id |-> HitFileId(hit), name |-> hit.name, mimeType |-> hit.mime,
     is_tgapi |-> TRUE]

ParseHits(files_list) ==
    LET n == Len(files_list)
        bad == {i \in 1..n : HitRaises(files_list[i]) # None}
        stop == IF bad = {} THEN n + 1 ELSE CHOOSE i \in bad : \A j \in bad : i <= j
        kept == SelectSeq(SubSeq(files_list, 1, stop - 1),
                          LAMBDA hit : HitFileId(hit) # NoId)
    IN  [results |-> DictOf([p \in 1..Len(kept) |-> HitEntry(kept[p])]),
         exc |-> IF bad = {} THEN None ELSE HitRaises(files_list[stop])]

\* Lines 216-220: the handlers of fetch_tgarchive_files catch
\* RequestException, AttributeError and JSONDecodeError.
CaughtByFetch(cls) == cls \in {"RequestException", "AttributeError", "JSONDecodeError"}

\* Lines 154 and 217: err.response.text if hasattr(err, 'response') else ...
\* A RequestException always has the attribute response, which is None when
\* the request got no answer: reading its text raises AttributeError inside
\* the handler, and that leaves the function.
HandlerRaises(cls) == cls = "RequestException"

\* fetch_tgarchive_files returns results to search (lines 272-275): a
\* non-empty result is merged, then the probes start.
FetchReturn(results) ==
    LET map == IF results # <<>> THEN DictUpdate(resultsMap, results) ELSE resultsMap
    IN  /\ tg_files' = results
        /\ resultsMap' = map
        /\ StartProbes(map)
        /\ response' = response

\* An exception leaves the running frame of fetch_tgarchive_files. In the
\* retry (line 215, inside the caller's try) the caller's handlers see it.
FetchRaise(cls) ==
    IF retry_count > 1 /\ CaughtByFetch(cls) /\ ~HandlerRaises(cls)
    THEN FetchReturn(<<>>)
    ELSE /\ ErrorResponse(cls)
         /\ UNCHANGED <<tg_files, resultsMap, probeVars>>

\* An exception raised inside the try of the running frame (lines 171-220).
FetchExcept(cls, results) ==
    IF ~CaughtByFetch(cls) THEN FetchRaise(cls)
    ELSE IF HandlerRaises(cls) THEN FetchRaise("AttributeError")
    ELSE FetchReturn(results)

\* MayRetry one call later.
MayRetryTwice(count) == count <= 2

\* Line 214: if retry_count <= 1
MayRetry(count) == count <= 1

\* NeedsToken as a test that takes the token for granted.
NeedsTokenNever == FALSE

\* NeedsToken as a test that never finds a cached token.
NeedsTokenAlways == TRUE

\* Line 166: if not TG_ARCHIVE_TOKEN
NeedsToken == TG_ARCHIVE_TOKEN = 0

\* Lines 163-192 up to the first request: without the search endpoint, or
\* without a token and the means to get one, the call returns empty; without
\* a token it asks for one; with a token it sends the search request.
TgEnter ==
    /\ pc = "tg_enter"
    /\ IF ~config.search \/ (NeedsToken /\ ~config.auth)
       THEN FetchReturn(<<>>) /\ tglog' = tglog
       ELSE /\ IF NeedsToken
               THEN pc' = "tg_auth" /\ tglog' = Append(tglog, "auth")
               ELSE pc' = "tg_search" /\ tglog' = Append(tglog, "search")
            /\ UNCHANGED <<tg_files, resultsMap, probeVars, response>>
    /\ UNCHANGED <<envVars, ovVars, tokVars, query, quality, gdrive_query, retry_count>>

\* The answer to the token request (lines 147-158, then 167-192). r is:
\* "token" (a body with a token), "notok" (a failure status), "notoken" (a
\* body without "token"), "badjson" (a body that is no JSON), "notdict" (a
\* JSON body that is no object: .get raises AttributeError) or "neterr" (no
\* answer: a RequestException).
TgAuthResp(r) ==
    /\ pc = "tg_auth"
    /\ IF r = "token"
       THEN /\ issued < MaxTokens
            /\ issued' = issued + 1
            /\ TG_ARCHIVE_TOKEN' = issued + 1
            /\ tglog' = tglog \o <<"token", "search">>
            /\ pc' = "tg_search"
            /\ UNCHANGED <<tg_files, resultsMap, probeVars, response>>
       ELSE /\ tglog' = Append(tglog, r)
            /\ UNCHANGED tokVars
            /\ IF r = "neterr" THEN FetchRaise("AttributeError")
               ELSE IF r = "notdict" THEN FetchRaise("AttributeError")
               ELSE FetchReturn(<<>>)
    /\ UNCHANGED <<envVars, ovVars, query, quality, gdrive_query, retry_count>>

\* The answer to the search request (lines 192-221). r is: "ok" (the hits),
\* "nofiles" (a body without "files": iterating None raises TypeError),
\* "badjson" (a body that is no JSON), "unauth" (a failure whose message is
\* Unauthorized), "fail" (another failure), "failbadjson" (a failure whose
\* body is no JSON) or "neterr" (no answer: a RequestException).
TgSearchResp(r) ==
    /\ pc = "tg_search"
    /\ tglog' = Append(tglog, r)
    /\ IF r = "unauth"
       THEN /\ TG_ARCHIVE_TOKEN' = 0
            /\ issued' = issued
            /\ IF MayRetry(retry_count)
               THEN /\ retry_count' = retry_count + 1
                    /\ pc' = "tg_enter"
                    /\ UNCHANGED <<tg_files, resultsMap, probeVars, response>>
               ELSE /\ retry_count' = retry_count
                    /\ FetchReturn(<<>>)
       ELSE /\ UNCHANGED <<tokVars, retry_count>>
            /\ IF r = "ok"
               THEN LET parsed == ParseHits(tgFiles)
                    IN  IF parsed.exc = None THEN FetchReturn(parsed.results)
                        ELSE FetchExcept(parsed.exc, parsed.results)
               ELSE IF r = "nofiles" THEN FetchExcept("TypeError", <<>>)
               ELSE IF r = "neterr" THEN FetchExcept("RequestException", <<>>)
               ELSE IF r \in {"badjson", "failbadjson"}
                    THEN FetchExcept("JSONDecodeError", <<>>)
               ELSE FetchReturn(<<>>)
    /\ UNCHANGED <<envVars, ovVars, query, quality, gdrive_query>>

\* ------------------------------------------------------------------- probes

\* isDownloadable(fileId, ...): what the probe of this id does.
ProbeOutcome(id) ==
    (CHOOSE f \in {driveFiles[i] : i \in 1..Len(driveFiles)} : f.id = id).dl

\* ProbeFinish with a failure handler that is entered twice.
ProbeFinishTwice(id) ==
    /\ pc = "probing"
    /\ id \in running
    /\ ProbeOutcome(id) # "hang"
    /\ IF ProbeOutcome(id) = "raise"
       THEN shared_list' = shared_list \o <<id, id>> /\ probeOk' = probeOk
       ELSE shared_list' = shared_list /\ probeOk' = probeOk \cup {id}
    /\ IF queue # <<>>
       THEN running' = (running \ {id}) \cup {Head(queue)} /\ queue' = Tail(queue)
       ELSE running' = running \ {id} /\ queue' = queue
    /\ UNCHANGED <<envVars, ovVars, tokVars, pc, query, quality, gdrive_query,
                   resultsMap, retry_count, tg_files, tglog, response>>

\* A probe ends (one that hangs never does): a raise appends the id to
\* shared_list. Its thread takes the next waiting probe.
ProbeFinish(id) ==
    /\ pc = "probing"
    /\ id \in running
    /\ ProbeOutcome(id) # "hang"
    /\ IF ProbeOutcome(id) = "raise"
       THEN shared_list' = Append(shared_list, id) /\ probeOk' = probeOk
       ELSE shared_list' = shared_list /\ probeOk' = probeOk \cup {id}
    /\ IF queue # <<>>
       THEN running' = (running \ {id}) \cup {Head(queue)} /\ queue' = Tail(queue)
       ELSE running' = running \ {id} /\ queue' = queue
    /\ UNCHANGED <<envVars, ovVars, tokVars, pc, query, quality, gdrive_query, resultsMap,
                   retry_count, tg_files, tglog, response>>

\* PopAll as a loop that starts after the first failed id.
PopAllButFirst(map, failed) ==
    LET gone == {failed[i] : i \in 2..Len(failed)}
    IN  [map |-> SelectSeq(map, LAMBDA e : e.id \notin gone), exc |-> None]

\* Lines 58-59: for fileId in shared_list: resultsMap.pop(fileId). A pop of
\* a key the dict does not hold (or no longer holds) raises KeyError and ends
\* the loop.
PopAll(map, failed) ==
    LET n == Len(failed)
        bad == {i \in 1..n : \/ failed[i] \notin Keys(map)
                             \/ \E j \in 1..(i - 1) : failed[j] = failed[i]}
        stop == IF bad = {} THEN n + 1 ELSE CHOOSE i \in bad : \A j \in bad : i <= j
        gone == {failed[i] : i \in 1..(stop - 1)}
    IN  [map |-> SelectSeq(map, LAMBDA e : e.id \notin gone),
         exc |-> IF bad = {} THEN None ELSE "KeyError"]

\* BarrierOpen as a wait for the first task to end.
BarrierOpenFirst ==
    \/ running = {} /\ queue = <<>>
    \/ probeOk # {}
    \/ shared_list # <<>>

\* BarrierOpen as a wait for every probe to have started.
BarrierOpenStarted == queue = <<>>

\* The gather returns once every task has ended.
BarrierOpen == running = {} /\ queue = <<>>

\* Lines 58-59 and 276-279: after the barrier, drop the failed ids, sort, answer.
Respond ==
    /\ pc = "probing"
    /\ BarrierOpen
    /\ LET popped == PopAll(resultsMap, shared_list)
       IN  IF popped.exc # None
           THEN ErrorResponse(popped.exc) /\ resultsMap' = popped.map
           ELSE /\ resultsMap' = popped.map
                /\ response' = [status |-> "success", files |-> natsorted(popped.map),
                                msg |-> None]
                /\ pc' = "done"
    /\ UNCHANGED <<envVars, ovVars, tokVars, query, quality, gdrive_query, retry_count, tg_files,
                   tglog, probeVars>>

\* ids a download probe can be asked about
FileIds == {driveFiles[i].id : i \in 1..Len(driveFiles)}

\* ------------------------------------------------- overlapping requests
\* fetch_tgarchive_files as run by several requests at once (one thread
\* each), step by step: every read and every write of the global
\* TG_ARCHIVE_TOKEN is a step of its own, and nothing in the code orders the
\* steps of one request with those of another.

\* Line 160: search calls fetch_tgarchive_files(query).
CallEnter(t) ==
    /\ calls[t].pc = "out"
    /\ calls' = [calls EXCEPT ![t] = [pc |-> "check", retry_count |-> 1, bearer |-> 0]]
    /\ UNCHANGED <<envVars, tokVars, reqVars, probeVars, accepted>>

\* Line 166: if not TG_ARCHIVE_TOKEN. Without a token the token request of
\* line 147 is sent.
CallCheckToken(t) ==
    /\ calls[t].pc = "check"
    /\ calls' = [calls EXCEPT ![t].pc = IF NeedsToken THEN "acquire" ELSE "build"]
    /\ UNCHANGED <<envVars, tokVars, reqVars, probeVars, accepted>>

\* Lines 167-169: the answer to the token request. r is "token" (the walrus
\* stores the new token, which the endpoint accepts from now on) or "fail"
\* (no token: the call ends).
CallTokenResp(t, r) ==
    /\ calls[t].pc = "acquire"
    /\ IF r = "token"
       THEN /\ issued < MaxTokens
            /\ issued' = issued + 1
            /\ TG_ARCHIVE_TOKEN' = issued + 1
            /\ accepted' = accepted \cup {issued + 1}
            /\ calls' = [calls EXCEPT ![t].pc = "build"]
       ELSE /\ calls' = [calls EXCEPT ![t] = NoCall]
            /\ UNCHANGED <<tokVars, accepted>>
    /\ UNCHANGED <<envVars, reqVars, probeVars>>

\* Lines 180-192: the headers read TG_ARCHIVE_TOKEN as it is by now
\* ("Bearer None" when it is None) and the search request is sent.
CallBuildHeaders(t) ==
    /\ calls[t].pc = "build"
    /\ calls' = [calls EXCEPT ![t].bearer = TG_ARCHIVE_TOKEN, ![t].pc = "search"]
    /\ UNCHANGED <<envVars, tokVars, reqVars, probeVars, accepted>>

\* Lines 193-221: the answer to the search request. r is "answer" (the
\* endpoint answers: the hits for a bearer it accepts, Unauthorized for
\* another) or "fail" (any other failure: the call ends). On Unauthorized
\* the token is set to None and the first attempt calls itself again.
CallSearchResp(t, r) ==
    /\ calls[t].pc = "search"
    /\ IF r = "answer" /\ calls[t].bearer \notin accepted
       THEN /\ TG_ARCHIVE_TOKEN' = 0
            /\ issued' = issued
            /\ calls' = [calls EXCEPT ![t] =
                            IF MayRetry(calls[t].retry_count)
                            THEN [pc |-> "check",
                                  retry_count |-> calls[t].retry_count + 1,
                                  bearer |-> 0]
                            ELSE NoCall]
       ELSE /\ calls' = [calls EXCEPT ![t] = NoCall]
            /\ UNCHANGED tokVars
    /\ UNCHANGED <<envVars, reqVars, probeVars, accepted>>

\* The endpoint stops accepting a token ("Token is expired", line 212).
TokenExpires(k) ==
    /\ k \in accepted
    /\ accepted' = accepted \ {k}
    /\ UNCHANGED <<envVars, tokVars, reqVars, probeVars, calls>>

\* ------------------------------------------------------------- properties

Range(seq) == {seq[i] : i \in 1..Len(seq)}

Succeeded == pc = "done" /\ response.status = "success"

PrimaryFiles == {e \in Range(response.files) : ~e.is_tgapi}

\* C1: the number of files of a successful response never exceeds 30.
C1_AtMostMaxResults == Succeeded => Len(response.files) <= MAX_RESULTS

\* C2: no Primary-origin entry of a successful response is an id whose probe
\* raised: each one has had a probe that completed without error.
C2_PrimaryEntriesProbed ==
    Succeeded =>
        \A e \in PrimaryFiles :
            /\ e.id \in probeOk
            /\ e.id \notin Range(shared_list)
            /\ ProbeOutcome(e.id) = "ok"

\* A success that kept a primary entry and dropped another whose probe raised.
C2_Witness ==
    /\ Succeeded
    /\ PrimaryFiles # {}
    /\ shared_list # <<>>

Count(log, ev) == Cardinality({i \in 1..Len(log) : log[i] = ev})

InArchiveCall == pc \in {"tg_enter", "tg_auth", "tg_search"}

\* The archive call of this request sent something and has ended.
CallOver == pc \in {"probing", "done"} /\ tglog # <<>>

\* The primary listing of this request was answered.
Listed == InArchiveCall \/ pc = "probing" \/ Succeeded

Tokens == Range(Split(query))

\* C3, as claimed: after a first Unauthorized a new token is acquired and
\* exactly one further search request is sent.
C3_AlwaysOneMoreSearch ==
    (CallOver /\ Count(tglog, "unauth") >= 1) => Count(tglog, "search") = 2

\* C3, amended: at most two search requests per call; a first Unauthorized
\* clears the token and is followed by a token request, and by exactly one
\* further search request when that yields a token, by none and an empty
\* result when it does not; a second Unauthorized ends the call with an empty
\* result, nothing more sent, nothing raised.
C3_RetryOnce ==
    LET n == Len(tglog)
        U == {i \in 1..n : tglog[i] = "unauth"}
        S == {i \in 1..n : tglog[i] = "search"}
    IN  /\ Cardinality(S) <= 2
        /\ \A i \in U :
              (\A j \in U : i <= j) =>
                 /\ i = n => TG_ARCHIVE_TOKEN = 0 /\ pc = "tg_enter"
                 /\ i < n => tglog[i + 1] = "auth"
                 /\ i + 1 < n =>
                       IF tglog[i + 2] = "token"
                       THEN tglog[i + 3] = "search"
                            /\ Cardinality({j \in S : j > i}) = 1
                       ELSE /\ {j \in S : j > i} = {}
                            /\ n = i + 2
                            /\ pc \in {"probing", "done"}
                            /\ tg_files = <<>>
                            /\ response.status # "error"
        /\ Cardinality(U) = 2 =>
              /\ tglog[n] = "unauth"
              /\ TG_ARCHIVE_TOKEN = 0
              /\ pc \in {"probing", "done"}
              /\ tg_files = <<>>
              /\ response.status # "error"

\* Two Unauthorized answers in one call, and the request succeeded.
C3_Witness == Succeeded /\ Count(tglog, "unauth") = 2 /\ Count(tglog, "search") = 2

\* The listed files the post-filter is to accept: not a shortcut, every token
\* in the lowercase name; the first 30 of them.
Candidate(file) ==
    /\ file.mimeType # MIME_SHORTCUT
    /\ \A t \in Tokens : Contains(Lower(file.name), Lower(t))

Candidates == {i \in 1..Len(driveFiles) : Candidate(driveFiles[i])}

FirstCandidates ==
    {i \in Candidates : Cardinality({j \in Candidates : j < i}) < MAX_RESULTS}

\* C4: with 10 or more primary candidates accepted no archive request is made
\* and the result is exactly the primary entries that passed their probes.
C4_NoArchiveAtThreshold ==
    (Listed /\ Cardinality(Candidates) >= COVERAGE) =>
        /\ tglog = <<>>
        /\ ~InArchiveCall
        /\ Succeeded =>
              /\ \A e \in Range(response.files) : ~e.is_tgapi
              /\ Len(response.files) = Cardinality(PrimaryFiles)
              /\ {e.id : e \in Range(response.files)}
                    = {driveFiles[i].id : i \in {j \in FirstCandidates :
                                                    driveFiles[j].dl = "ok"}}

\* Twelve verified primary results, a non-empty archive, twelve files.
C4_Witness ==
    /\ Succeeded
    /\ tgFiles # <<>>
    /\ config = FullConfig
    /\ Cardinality(PrimaryFiles) >= 12
    /\ Len(response.files) = Cardinality(PrimaryFiles)

\* C5: whenever fewer than 10 Primary-origin entries survive their probes the
\* archive search is invoked.
C5_ArchiveAskedBelowVerifiedThreshold ==
    (Succeeded /\ config = FullConfig /\ Cardinality(PrimaryFiles) < COVERAGE)
        => tglog # <<>>

\* C6: a request whose archive search or token request failed with a network
\* error answers with status "error".
C6_TransportErrorSurfaced ==
    (pc = "done" /\ "neterr" \in Range(tglog)) => response.status = "error"

\* C7: when the archive answered with hits and the call returned, every
\* well-formed hit with an id is in the returned archive results.
C7_EveryGoodHitKept ==
    (CallOver /\ tglog[Len(tglog)] = "ok" /\ response.status # "error") =>
        \A hit \in Range(tgFiles) :
            (hit.desc = "json" /\ HitFileId(hit) > 0)
                => HitFileId(hit) \in Keys(tg_files)

\* C8, as claimed: the backend query omits exactly the token equal to the
\* detected label.
C8_OmitsOnlyEqualToken ==
    Listed => gdrive_query = SelectSeq(Split(query), LAMBDA t : t # quality)

\* C8, amended: the backend query omits exactly the tokens that contain the
\* detected label as a substring; every other token gives a clause, in order.
C8_OmitsTokensContainingLabel ==
    Listed =>
        gdrive_query =
            SelectSeq(Split(query),
                      LAMBDA t : IF quality = None THEN TRUE ELSE ~Contains(t, quality))

\* A token that contains the label without being it was left out.
C8_Witness ==
    /\ Listed
    /\ quality # None
    /\ \E t \in Tokens :
          /\ Contains(t, quality)
          /\ t # quality
          /\ t \notin Range(gdrive_query)
    /\ \E t \in Tokens : t \in Range(gdrive_query)

\* C9: right after the post-filter, every listed item that is no shortcut and
\* whose lowercase name contains every token other than the quality label has
\* been accepted.
C9_QualityLabelNotMatched ==
    (pc = "tg_enter" /\ tglog = <<>>) =>
        \A i \in 1..Len(driveFiles) :
            (/\ driveFiles[i].mimeType # MIME_SHORTCUT
             /\ \A t \in Tokens :
                    t # quality => Contains(Lower(driveFiles[i].name), Lower(t)))
                => driveFiles[i].id \in Keys(resultsMap)

\* C10, as claimed: neither a folder nor a shortcut the backend listed is in
\* the response.
C10_NoFolderNoShortcut ==
    Succeeded =>
        \A e \in PrimaryFiles : e.mimeType \notin {MIME_FOLDER, MIME_SHORTCUT}

ExampleQuery == <<"t", " ", "7", "2", "0">>

\* C10, amended: a Primary-origin entry of the response is no shortcut,
\* matches every token and passed its probe (a listed folder is treated like a
\* regular file); the example, with a folder that fails its probe, yields one
\* result.
C10_OnlyMatchingProbedNonShortcuts ==
    Succeeded =>
        /\ \A e \in PrimaryFiles :
              /\ e.mimeType # MIME_SHORTCUT
              /\ \A t \in Tokens : Contains(Lower(e.name), Lower(t))
              /\ ProbeOutcome(e.id) = "ok"
        /\ (driveFiles = MixedListing("raise") /\ query = ExampleQuery
               /\ tg_files = <<>>)
              => Len(response.files) = 1 /\ response.files[1].id = 3

\* The example: a folder, a shortcut, two matching regular files of which one
\* fails its probe, no archive entries, one result.
C10_Witness ==
    /\ Succeeded
    /\ driveFiles = MixedListing("raise")
    /\ query = ExampleQuery
    /\ tg_files = <<>>
    /\ Len(response.files) = 1

\* The exception classes that reach the handler of search (line 280).
EscapingClasses ==
    {"GdriveSearchError", "FileNotFoundError", "HttpError", "TypeError",
     "ValueError", "AttributeError", "KeyError"}

\* C11: a request ends with exactly one response, of status "success" or
\* "error"; an error envelope names the class that escaped and holds no
\* files; after a failed credential refresh the request has listed nothing,
\* sent nothing to the archive and probed nothing.
C11_OneResponseErrorEnvelope ==
    /\ response.status \in {"none", "success", "error"}
    /\ (pc = "done") <=> (response.status # "none")
    /\ response.status = "error" =>
          /\ pc = "done"
          /\ response.files = <<>>
          /\ response.msg \in EscapingClasses
    /\ response.status = "success" => response.msg = None
    /\ response.msg \in {"GdriveSearchError", "FileNotFoundError"} =>
          /\ response.status = "error"
          /\ gdrive_query = <<>>
          /\ resultsMap = <<>>
          /\ tglog = <<>>
          /\ tg_files = <<>>
          /\ running = {} /\ queue = <<>>
          /\ probeOk = {} /\ shared_list = <<>>

\* A refresh failure answered on a process whose earlier request got a token,
\* and an exception of the archive call answered after candidates were found.
C11_Witness ==
    \/ /\ pc = "done" /\ response.msg = "GdriveSearchError" /\ issued > 0
    \/ /\ pc = "done" /\ response.status = "error" /\ resultsMap # <<>>
          /\ tglog # <<>>

\* Where the entry of this id stands in a dict.
PosOf(m, id) == CHOOSE i \in 1..Len(m) : m[i].id = id

\* C12: the files of a successful response are the entries of the result
\* dict in ascending natural order of name: no entry is followed by one of
\* smaller name under the order that compares digit runs as integers, and
\* entries of equal name stand in their insertion order.
C12_NaturalOrder ==
    Succeeded =>
        LET f == response.files
        IN  /\ Len(f) = Len(resultsMap)
            /\ Range(f) = Range(resultsMap)
            /\ \A i \in 1..(Len(f) - 1) : ~NatLess(f[i + 1].name, f[i].name)
            /\ \A i \in 1..Len(f) : \A j \in (i + 1)..Len(f) :
                   f[i].name = f[j].name =>
                       PosOf(resultsMap, f[i].id) < PosOf(resultsMap, f[j].id)

\* A response where a name with the digit run 3 precedes names with the digit
\* run 103 that were inserted before it and that text order puts first, and
\* where two entries share a name.
C12_Witness ==
    /\ Succeeded
    /\ \E i, j \in 1..Len(response.files) :
          /\ i < j
          /\ StrLess(response.files[j].name, response.files[i].name)
          /\ PosOf(resultsMap, response.files[j].id)
                < PosOf(resultsMap, response.files[i].id)
    /\ \E i, j \in 1..Len(response.files) :
          i < j /\ response.files[i].name = response.files[j].name

\* The last entry of the archive log after the step.
Answer == tglog'[Len(tglog')]

\* C13: the token goes Empty -> Acquired -> (on Unauthorized) Empty over
\* any sequence of requests. It changes only from Empty to a newly issued
\* token, on the answer to a token request, and from a token to Empty, on an
\* Unauthorized answer to a search request; a token request is sent only when
\* the token is Empty; a call that finds a token sends its search request
\* without asking for another; every other answer to a search request leaves
\* the token as it was.
C13_TokenStep ==
    /\ TG_ARCHIVE_TOKEN' # TG_ARCHIVE_TOKEN =>
          \/ /\ TG_ARCHIVE_TOKEN = 0
             /\ pc = "tg_auth"
             /\ TG_ARCHIVE_TOKEN' = issued'
             /\ issued' = issued + 1
          \/ /\ TG_ARCHIVE_TOKEN # 0
             /\ TG_ARCHIVE_TOKEN' = 0
             /\ pc = "tg_search"
             /\ Answer = "unauth"
    /\ (pc' = "tg_auth" /\ pc # "tg_auth") => TG_ARCHIVE_TOKEN = 0
    /\ (pc = "tg_enter" /\ TG_ARCHIVE_TOKEN # 0 /\ config.search) =>
          /\ pc' = "tg_search"
          /\ tglog' = Append(tglog, "search")
          /\ TG_ARCHIVE_TOKEN' = TG_ARCHIVE_TOKEN
    /\ (pc = "tg_search" /\ pc' # "tg_search" /\ Answer # "unauth") =>
          TG_ARCHIVE_TOKEN' = TG_ARCHIVE_TOKEN /\ TG_ARCHIVE_TOKEN # 0
    /\ (pc = "tg_search" /\ Answer = "unauth") => TG_ARCHIVE_TOKEN' = 0

\* C13: every step of every run is a step of the token state machine.
C13_TokenStateMachine == [][C13_TokenStep]_vars

\* A later request reuses, without asking, the second token of the process:
\* the first was acquired, then cleared by an Unauthorized answer.
C13_Witness ==
    /\ pc = "tg_search"
    /\ tglog = <<"search">>
    /\ TG_ARCHIVE_TOKEN = 2
    /\ issued = 2

\* Positions of the archive log that hold the answer to a token request
\* that gave no token.
FailedAcquisitions ==
    {i \in 2..Len(tglog) : tglog[i - 1] = "auth" /\ tglog[i] # "token"}

\* After a token request that gave no token the token is Empty, the call
\* has ended with an empty result and has sent nothing after that answer.
AcquisitionFailureEndsCall ==
    \A i \in FailedAcquisitions :
        /\ i = Len(tglog)
        /\ TG_ARCHIVE_TOKEN = 0
        /\ pc \in {"probing", "done"}
        /\ tg_files = <<>>

C14_Step ==
    /\ AcquisitionFailureEndsCall'
    /\ (pc = "tg_auth" /\ TG_ARCHIVE_TOKEN' = 0) =>
          /\ Answer \in {"notok", "notoken", "badjson", "notdict", "neterr"}
          /\ Count(tglog', "search") = Count(tglog, "search")
          /\ issued' = issued
    /\ (pc = "tg_enter" /\ TG_ARCHIVE_TOKEN = 0 /\ config.search /\ config.auth) =>
          /\ pc' = "tg_auth"
          /\ tglog' = Append(tglog, "auth")

\* C14: when a token request fails (no answer, a failure status, a malformed
\* body, a body without a token) the token stays Empty and the call sends no
\* search request after it; a call that finds the token Empty, the next one
\* included, begins by asking for a token.
C14_AcquisitionFailure == [][C14_Step]_vars

\* A request that succeeded although its token request was answered by a
\* malformed body, on a process that had held a token before.
C14_Witness ==
    /\ Succeeded
    /\ tglog = <<"auth", "badjson">>
    /\ TG_ARCHIVE_TOKEN = 0
    /\ issued > 0

ProbesPending == pc = "probing" /\ (running # {} \/ queue # <<>>)

C15_Step ==
    /\ ProbesPending =>
          /\ resultsMap' = resultsMap
          /\ response' = response
          /\ response = NoResponse
          /\ pc' = "probing"
    /\ (pc = "probing" /\ pc' # "probing") =>
          /\ running = {} /\ queue = <<>>
          /\ Range(ProbeIds(resultsMap)) = probeOk \cup Range(shared_list)

\* C15: the probes of a request end at one join barrier. While a probe of
\* the request is running or waiting, no step changes the result dict or
\* produces the response; the step that leaves the probing stage is taken
\* with every probe of the request ended.
C15_JoinBarrier == [][C15_Step]_vars

\* A probe has raised while another is still running, and the entry of the
\* failed id is still in the result dict.
C15_Witness ==
    /\ ProbesPending
    /\ running # {}
    /\ shared_list # <<>>
    /\ Range(shared_list) \subseteq Keys(resultsMap)

\* C16: with overlapping requests, every search request on its way bears a
\* token that a token request returned, never None.
C16_SearchBearsToken ==
    \A t \in Requests :
        calls[t].pc = "search" => calls[t].bearer \in 1..issued

\* C17: with overlapping requests, a step that sets the token to None is
\* the Unauthorized answer to a request that carried that very token: a
\* token one request has just acquired is never cleared by the answer to
\* another request's older token.
C17_ClearsOnlyOwnToken ==
    [][\A t \in Requests :
          (/\ calls[t].pc = "search"
           /\ calls'[t] # calls[t]
           /\ TG_ARCHIVE_TOKEN # 0
           /\ TG_ARCHIVE_TOKEN' = 0)
             => calls[t].bearer = TG_ARCHIVE_TOKEN]_vars

\* The request waits on a probe that never completes.
HangPending ==
    /\ pc = "probing"
    /\ \E id \in running \cup Range(queue) : ProbeOutcome(id) = "hang"

Busy == pc \notin {"idle", "done"}

\* C18: when every backend call and every probe that can complete does
\* complete, every request comes to its response unless it waits on a probe
\* that never completes; and a request that waits on such a probe never
\* responds, whatever its other probes do: there is no early exit.
C18_RespondsUnlessProbeHangs ==
    /\ Busy ~> (pc = "done" \/ HangPending)
    /\ [](HangPending => [](HangPending /\ response = NoResponse))

\* Every other probe of the request has ended, one of them with an error,
\* and the request still waits on the probe that hangs.
C18_Witness ==
    /\ HangPending
    /\ Cardinality(running) = 1
    /\ queue = <<>>
    /\ probeOk # {}
    /\ shared_list # <<>>
    /\ response = NoResponse

C19_Step ==
    (pc = "probing" /\ pc' = "done") =>
        LET primary == {e \in Range(resultsMap) : ~e.is_tgapi}
        IN  /\ response'.status = "success"
            /\ \A i, j \in 1..Len(shared_list) :
                   shared_list[i] = shared_list[j] => i = j
            /\ Range(shared_list)
                  = {e.id : e \in {x \in primary : ProbeOutcome(x.id) = "raise"}}
            /\ probeOk = {e.id : e \in {x \in primary : ProbeOutcome(x.id) = "ok"}}
            /\ resultsMap' =
                   SelectSeq(resultsMap,
                             LAMBDA e : e.is_tgapi \/ ProbeOutcome(e.id) = "ok")
            /\ Range(response'.files) = Range(resultsMap')

\* C19: the availability filter removes exactly the Primary-origin entries
\* whose probe raised. In whatever order the probes end, each failed id is
\* in the failed-id list once, so its removal never fails; only
\* Primary-origin ids are probed; the entries that are left are the
\* Archive-origin entries and the Primary-origin entries whose probe
\* succeeded, with their fields and in their order.
C19_RemovesExactlyFailedPrimary == [][C19_Step]_vars

\* Two probes failed and ended in the reverse of the order they were started
\* in; the response holds an Archive-origin entry and a Primary-origin one.
C19_Witness ==
    /\ Succeeded
    /\ Len(shared_list) = 2
    /\ shared_list[1] > shared_list[2]
    /\ \E e \in Range(response.files) : e.is_tgapi
    /\ \E e \in Range(response.files) : ~e.is_tgapi

\* One request at a time.
Next ==
    \/ \E raw \in Queries, cred \in {"ok", "RefreshError", "FileNotFound"} :
           SearchBegin(raw, cred)
    \/ \E listed \in {"ok", "error"} : PrimaryList(listed)
    \/ TgEnter
    \/ \E r \in {"token", "notok", "notoken", "badjson", "notdict", "neterr"} :
           TgAuthResp(r)
    \/ \E r \in {"ok", "nofiles", "badjson", "unauth", "fail", "failbadjson", "neterr"} :
           TgSearchResp(r)
    \/ \E id \in FileIds : ProbeFinish(id)
    \/ Respond

Spec == Init /\ [][Next]_vars

\* The environments of the runs that are checked for progress: a listing
\* whose probes all complete and one with a probe that hangs.
LiveScenarios ==
    { MixedListing("ok"), MixedListing("hang") }
        \X { <<>>, <<GoodHit(101)>> } \X { FullConfig }

\* The step of Respond, told by where it starts and ends (the Respond
\* steps are the steps of Next from the open barrier to the response).
RespondStep == pc = "probing" /\ BarrierOpen /\ pc' = "done"

\* Every backend call that was sent is answered, every probe that can
\* complete does, and the coordinator goes on once the gather has returned.
\* Nothing forces a new request to arrive.
Progress ==
    /\ WF_vars(\E listed \in {"ok", "error"} : PrimaryList(listed))
    /\ WF_vars(TgEnter)
    /\ WF_vars(\E r \in {"token", "notok", "notoken", "badjson", "notdict", "neterr"} :
                   TgAuthResp(r))
    /\ WF_vars(\E r \in {"ok", "nofiles", "badjson", "unauth", "fail", "failbadjson",
                          "neterr"} : TgSearchResp(r))
    /\ WF_vars(\E id \in FileIds : ProbeFinish(id))
    /\ WF_pc(RespondStep)

LiveSpec == Start(LiveScenarios) /\ [][Next]_vars /\ Progress

\* Requests whose archive calls overlap, the archive fully configured.
OverlapInit == Init /\ driveFiles = <<>> /\ tgFiles = <<>> /\ config = FullConfig

OverlapNext ==
    \/ \E t \in Requests : CallEnter(t)
    \/ \E t \in Requests : CallCheckToken(t)
    \/ \E t \in Requests, r \in {"token", "fail"} : CallTokenResp(t, r)
    \/ \E t \in Requests : CallBuildHeaders(t)
    \/ \E t \in Requests, r \in {"answer", "fail"} : CallSearchResp(t, r)
    \/ \E k \in 1..MaxTokens : TokenExpires(k)

Overlap == OverlapInit /\ [][OverlapNext]_vars

====
